---- MODULE Spec2Model ----
(***************************************************************************)
(* k8s-secret-template: one run of the program in src/main.go.             *)
(*                                                                         *)
(* The program reads secret templates from a directory, lists the live     *)
(* secrets of every namespace the templates name, replaces every template  *)
(* that has a live counterpart by a copy of the live object with merged    *)
(* labels and annotations, and applies the result (Update or Create, with  *)
(* the Get/Delete/Create fallback).                                        *)
(*                                                                         *)
(* Go values are modelled as follows.                                      *)
(*   - A map[string]string is a reference: Nil, or an address of `heap`,   *)
(*     whose content is a function from keys to values.  Two objects that  *)
(*     hold the same address share the map.                                *)
(*   - A corev1.Secret is a record [namespace, name, labels, annotations,  *)
(*     data, uid, resourceVersion, creationTimestamp]; labels and          *)
(*     annotations are references, data is never written by the program    *)
(*     and is kept as a value.                                             *)
(*   - The strings UID and ResourceVersion are numbers, 0 being "".        *)
(*   - A CreationTimestamp is a number, 0 being the zero time.             *)
(*   - The cluster is a function from the keys <<namespace, name>> of the  *)
(*     secrets that exist to their stored state.                           *)
(***************************************************************************)
EXTENDS Integers, Sequences, FiniteSets, TLC

VARIABLES
    input,        \* the template directory: [dirOK, entries]
    pc,           \* position of main(): start, parse, list, reconcile, apply, done, fatal, panic
    secretFiles,  \* main.secretFiles
    sec,          \* main.sec / main.us (updateSecretData writes the slice in place)
    templates,    \* the parsed templates as they were before updateSecretData (history)
    nsc,          \* main.nsc
    nsi,          \* index into nsc of the next namespace to list
    allSecrets,   \* main.allSecrets, the live snapshot
    heap,         \* content of every allocated map
    heap0,        \* the heap as it was before updateSecretData (history)
    idx,          \* index into sec of the object being applied
    step,         \* position inside ensureCreateSecret / deleteRecreateSecret
    cluster,      \* the secrets that exist in the cluster
    uidCtr,       \* last UID the cluster has assigned
    rev,          \* last resourceVersion the cluster has assigned
    gen,          \* last payload generation the external controller has written
    ctlLast,      \* per key, the payload the external controller last wrote
    raced,        \* keys the controller has written after the List of their namespace
    calls,        \* every Gateway call issued so far, in order (history)
    sent,         \* what every Gateway call carried, in the order of calls (history)
    cluster0,     \* the cluster as it was when the run started (history)
    scan          \* one file read as text: [content, rejects, handed, err], rejects
                  \* being the documents the deserializer returns an error for,
                  \* handed the documents given to it, err whether it has failed

vars == <<input, pc, secretFiles, sec, templates, nsc, nsi, allSecrets, heap, heap0,
          idx, step, cluster, uidCtr, rev, gen, ctlLast, raced, calls, sent, cluster0, scan>>

-----------------------------------------------------------------------------
(* Bounds of the model. *)

\* longest template sequence of a run
MaxTemplates == 2
\* number of writes of the external controller during one run
MaxCtlWrites == 1
\* longest template sequence handed to updateSecretData on its own
MaxNew == 2
\* longest template sequence handed to secretNamespaces on its own
MaxDiscover == 3
\* longest file content read as text, in characters (a delimiter counting as one)
MaxText == 4
\* number of documents in the files of a directory handed to the parser on its own
MaxDocs == 4

\* the empty string as UID (src/main.go:219, 251)
EmptyUID == 0
\* the empty string as ResourceVersion (src/main.go:218)
EmptyRV == 0
\* the zero time.Time as CreationTimestamp (src/main.go:220-222)
ZeroTime == 0

Namespaces == {"a", "b"}
\* the names in the order in which List returns them
NameOrder == <<"s1">>
Names == {NameOrder[n] : n \in 1..Len(NameOrder)}
Keys == Namespaces \X Names

-----------------------------------------------------------------------------
(* Go maps. *)

Nil == <<"nil">>
EmptyKV == [k \in {} |-> ""]

\* content of the map a reference denotes; ranging over a nil map yields nothing
KV(h, ref) == IF ref = Nil THEN EmptyKV ELSE h[ref]

\* for k, v := range src { dst[k] = v } on contents
Overwrite(dst, src) ==
    [k \in (DOMAIN dst) \cup (DOMAIN src) |-> IF k \in DOMAIN src THEN src[k] ELSE dst[k]]

\* Secret.Data: no entry, or the entry "k" holding the payload of generation g
\* (0: the payload a template supplies; 1, 2, ...: payloads the controller writes)
NoPayload == [k \in {} |-> 0]
Payload(g) == [k \in {"k"} |-> g]

\* allocation of a map with the given content at a fresh address
Alloc(h, addr, kv) == [a \in (DOMAIN h) \cup {addr} |-> IF a = addr THEN kv ELSE h[a]]

-----------------------------------------------------------------------------
(* Input: the template directory.                                          *)
(*   input.dirOK    the directory can be read                              *)
(*   input.entries  its entries in directory order, each                   *)
(*                  [isDir, readable, docs]; a document is                  *)
(*                  [kind, obj] with kind one of                           *)
(*                    "blank"        only white space                      *)
(*                    "comment"      only comment lines                    *)
(*                    "undecodable"  the deserializer returns an error     *)
(*                    "other"        decodes to another kind               *)
(*                    "Secret"       decodes to the v1 Secret obj          *)
(* A decoded template is [namespace, name, labels, annotations, data, uid,  *)
(* resourceVersion, creationTimestamp], labels and annotations being       *)
(* [isNil, kv]; the last three are what the document's metadata carries,   *)
(* empty unless the document was written from a stored secret.             *)

Key(s) == <<s.namespace, s.name>>

\* ioutil.ReadDir + the loop over its result: the paths of the non-directories,
\* nil when the directory cannot be read (the error is only logged)
getSecretFiles(dir) ==
    IF ~dir.dirOK THEN <<>>
    ELSE SelectSeq([p \in 1..Len(dir.entries) |-> p], LAMBDA p : ~dir.entries[p].isDir)

\* the *corev1.Secret the deserializer builds for the i-th parsed template: every
\* field is the document's, the markers of its metadata included
DecodedSecret(obj, i) ==
    [namespace |-> obj.namespace, name |-> obj.name,
     labels |-> IF obj.labels.isNil THEN Nil ELSE <<"new", i, "labels">>,
     annotations |-> IF obj.annotations.isNil THEN Nil ELSE <<"new", i, "annotations">>,
     data |-> obj.data, uid |-> obj.uid, resourceVersion |-> obj.resourceVersion,
     creationTimestamp |-> obj.creationTimestamp]

\* the maps the deserializer allocates for the i-th parsed template
DecodedHeap(h, obj, i) ==
    LET h1 == IF obj.labels.isNil THEN h ELSE Alloc(h, <<"new", i, "labels">>, obj.labels.kv)
    IN  IF obj.annotations.isNil THEN h1
        ELSE Alloc(h1, <<"new", i, "annotations">>, obj.annotations.kv)

\* (mutant) a document of another kind is an error
RECURSIVE parseDocs_otherFatal(_, _, _)
parseDocs_otherFatal(docs, d, acc) ==
    IF d > Len(docs) THEN acc
    ELSE LET doc == docs[d] IN
         IF doc.kind \in {"blank", "comment"} THEN parseDocs_otherFatal(docs, d + 1, acc)
         ELSE IF doc.kind \in {"undecodable", "other"}
              THEN [acc EXCEPT !.err = TRUE, !.secrets = <<>>,
                               !.decoded = Append(@, doc.kind)]
         ELSE LET i == Len(acc.secrets) + 1 IN
              parseDocs_otherFatal(docs, d + 1,
                                   [acc EXCEPT !.secrets = Append(@, DecodedSecret(doc.obj, i)),
                                               !.heap = DecodedHeap(@, doc.obj, i),
                                               !.decoded = Append(@, doc.kind)])

\* the loop over the documents of one file; acc is [err, secrets, heap, decoded],
\* decoded being the kinds of the documents handed to the deserializer so far
RECURSIVE parseDocs(_, _, _)
parseDocs(docs, d, acc) ==
    IF d > Len(docs) THEN acc
    ELSE LET doc == docs[d] IN
         IF doc.kind \in {"blank", "comment"} THEN parseDocs(docs, d + 1, acc)
         ELSE IF doc.kind = "undecodable"
              THEN [acc EXCEPT !.err = TRUE, !.secrets = <<>>,
                               !.decoded = Append(@, doc.kind)]
         ELSE IF doc.kind = "Secret"
              THEN LET i == Len(acc.secrets) + 1 IN
                   parseDocs(docs, d + 1,
                             [acc EXCEPT !.secrets = Append(@, DecodedSecret(doc.obj, i)),
                                         !.heap = DecodedHeap(@, doc.obj, i),
                                         !.decoded = Append(@, doc.kind)])
         ELSE parseDocs(docs, d + 1, [acc EXCEPT !.decoded = Append(@, doc.kind)])

\* the loop over the files; acc is [err, secrets, heap, decoded]
RECURSIVE parseFiles(_, _, _, _)
parseFiles(dir, files, f, acc) ==
    IF f > Len(files) THEN acc
    ELSE LET file == dir.entries[files[f]] IN
         IF ~file.readable THEN [acc EXCEPT !.err = TRUE, !.secrets = <<>>]
         ELSE LET r == parseDocs(file.docs, 1, acc) IN
              IF r.err THEN r ELSE parseFiles(dir, files, f + 1, r)

parseFilesAsSecrets(dir, files) ==
    parseFiles(dir, files, 1,
               [err |-> FALSE, secrets |-> <<>>, heap |-> EmptyKV, decoded |-> <<>>])

\* (mutant) the namespace of every template is appended, seen before or not
RECURSIVE secretNamespacesFrom_noDedup(_, _, _)
secretNamespacesFrom_noDedup(secrets, i, namespaces) ==
    IF i > Len(secrets) THEN namespaces
    ELSE secretNamespacesFrom_noDedup(secrets, i + 1,
                                      Append(namespaces, secrets[i].namespace))

\* the distinct namespaces of the templates in order of first occurrence
RECURSIVE secretNamespacesFrom(_, _, _)
secretNamespacesFrom(secrets, i, namespaces) ==
    IF i > Len(secrets) THEN namespaces
    ELSE IF \E n \in 1..Len(namespaces) : namespaces[n] = secrets[i].namespace
         THEN secretNamespacesFrom(secrets, i + 1, namespaces)
         ELSE secretNamespacesFrom(secrets, i + 1, Append(namespaces, secrets[i].namespace))

secretNamespaces(secrets) == secretNamespacesFrom(secrets, 1, <<>>)

-----------------------------------------------------------------------------
(* The content of a file as text: a sequence of characters, the delimiter  *)
(* "---" being one element.                                                *)

Chars == {"x", " ", "#", "---", "\n"}

\* the characters strings.TrimSpace removes
Space == {" ", "\n"}

\* strings.Split(text, sep) from character n on; acc holds the pieces so far, the
\* last of them being the piece in progress
RECURSIVE SplitFrom(_, _, _, _)
SplitFrom(text, sep, n, acc) ==
    IF n > Len(text) THEN acc
    ELSE IF text[n] = sep THEN SplitFrom(text, sep, n + 1, Append(acc, <<>>))
    ELSE SplitFrom(text, sep, n + 1, [acc EXCEPT ![Len(acc)] = Append(@, text[n])])

Split(text, sep) == SplitFrom(text, sep, 1, << <<>> >>)

\* strings.Join(parts, sep)
RECURSIVE Join(_, _)
Join(parts, sep) ==
    IF Len(parts) = 0 THEN <<>>
    ELSE IF Len(parts) = 1 THEN parts[1]
    ELSE parts[1] \o <<sep>> \o Join(Tail(parts), sep)

RECURSIVE TrimLeft(_)
TrimLeft(text) ==
    IF Len(text) > 0 /\ text[1] \in Space THEN TrimLeft(Tail(text)) ELSE text

RECURSIVE TrimRight(_)
TrimRight(text) ==
    IF Len(text) > 0 /\ text[Len(text)] \in Space
    THEN TrimRight(SubSeq(text, 1, Len(text) - 1)) ELSE text

\* strings.TrimSpace(text)
TrimSpace(text) == TrimRight(TrimLeft(text))

\* strings.HasPrefix(line, c) for a prefix of one character
HasPrefix(line, c) == Len(line) > 0 /\ line[1] = c

\* the lines of doc that do not begin with "#", joined again
removeComments(doc) ==
    Join(SelectSeq(Split(doc, "\n"), LAMBDA line : ~HasPrefix(line, "#")), "\n")

\* the loop over docs from piece d on: acc holds the documents handed to decode
\* so far, rejects the documents for which decode returns an error. The loop
\* returns at the first such document (143-146) and decode is not called on the
\* documents after it.
RECURSIVE decodeInputs(_, _, _, _)
decodeInputs(docs, d, acc, rejects) ==
    IF d > Len(docs) THEN [handed |-> acc, err |-> FALSE]
    ELSE IF TrimSpace(docs[d]) = <<>> THEN decodeInputs(docs, d + 1, acc, rejects)
    ELSE LET doc == removeComments(docs[d]) IN
         IF TrimSpace(doc) = <<>> THEN decodeInputs(docs, d + 1, acc, rejects)
         ELSE IF doc \in rejects THEN [handed |-> Append(acc, doc), err |-> TRUE]
         ELSE decodeInputs(docs, d + 1, Append(acc, doc), rejects)

\* main.go:132-146 for the content of one file: what decode is called with, and
\* main.go:317-319 when decode has returned an error
ScanFile ==
    /\ pc = "start"
    /\ LET r == decodeInputs(Split(scan.content, "---"), 1, <<>>, scan.rejects)
       IN  /\ scan' = [scan EXCEPT !.handed = r.handed, !.err = r.err]
           /\ pc' = IF r.err THEN "fatal" ELSE "scanned"
    /\ UNCHANGED <<input, secretFiles, sec, templates, nsc, nsi, allSecrets, heap, heap0,
                   idx, step, cluster, uidCtr, rev, gen, ctlLast, raced, calls, sent,
                   cluster0>>

-----------------------------------------------------------------------------
(* Reconciler. *)

\* for k, v := range annotationsToMerge { annotations[k] = v }; return annotations
\* Writing an entry of a nil map panics; a loop over no entry writes nothing.
mergeMapStringString(h, annotations, annotationsToMerge) ==
    LET src == KV(h, annotationsToMerge) IN
    IF DOMAIN src = {} THEN [panic |-> FALSE, heap |-> h, ret |-> annotations]
    ELSE IF annotations = Nil THEN [panic |-> TRUE, heap |-> h, ret |-> Nil]
    ELSE [panic |-> FALSE,
          heap |-> [h EXCEPT ![annotations] = Overwrite(@, src)],
          ret |-> annotations]

\* (mutant) the match compares the names only
FirstMatch_nameOnly(ns, existingSecrets) ==
    LET m == {j \in 1..Len(existingSecrets) : ns.name = existingSecrets[j].name}
    IN  IF m = {} THEN 0 ELSE CHOOSE j \in m : \A j2 \in m : j <= j2

\* index of the first existing secret with the name and namespace of ns, 0 if none
FirstMatch(ns, existingSecrets) ==
    LET m == {j \in 1..Len(existingSecrets) :
                 /\ ns.name = existingSecrets[j].name
                 /\ ns.namespace = existingSecrets[j].namespace}
    IN  IF m = {} THEN 0 ELSE CHOOSE j \in m : \A j2 \in m : j <= j2

\* (mutant) the copy loses the payload of the existing secret
MergedSecret_dataDropped(es, a, lb) ==
    [es EXCEPT !.annotations = a, !.labels = lb, !.data = NoPayload]

\* (mutant) the copy loses the markers of the existing secret
MergedSecret_markersDropped(es, a, lb) ==
    [es EXCEPT !.annotations = a, !.labels = lb, !.uid = EmptyUID,
               !.resourceVersion = EmptyRV]

\* the body of the match: newSecrets[i] becomes a copy of the existing secret
\* whose annotations and labels are the merged maps
MergedSecret(es, a, lb) == [es EXCEPT !.annotations = a, !.labels = lb]

\* (mutant) the template is kept and only its annotations and labels are replaced
RECURSIVE updateSecretDataFrom_templateKept(_, _, _, _)
updateSecretDataFrom_templateKept(i, newSecrets, existingSecrets, h) ==
    IF i > Len(newSecrets) THEN [panic |-> FALSE, secrets |-> newSecrets, heap |-> h]
    ELSE LET j == FirstMatch(newSecrets[i], existingSecrets) IN
         IF j = 0 THEN updateSecretDataFrom_templateKept(i + 1, newSecrets, existingSecrets, h)
         ELSE LET es == existingSecrets[j]
                  a  == mergeMapStringString(h, es.annotations, newSecrets[i].annotations)
                  lb == mergeMapStringString(a.heap, es.labels, newSecrets[i].labels)
              IN  IF a.panic \/ lb.panic
                  THEN [panic |-> TRUE, secrets |-> newSecrets, heap |-> h]
                  ELSE updateSecretDataFrom_templateKept(
                           i + 1,
                           [newSecrets EXCEPT ![i] = MergedSecret(newSecrets[i], a.ret, lb.ret)],
                           existingSecrets, lb.heap)

\* the outer loop from template i on; the result is [panic, secrets, heap]
RECURSIVE updateSecretDataFrom(_, _, _, _)
updateSecretDataFrom(i, newSecrets, existingSecrets, h) ==
    IF i > Len(newSecrets) THEN [panic |-> FALSE, secrets |-> newSecrets, heap |-> h]
    ELSE LET j == FirstMatch(newSecrets[i], existingSecrets) IN
         IF j = 0 THEN updateSecretDataFrom(i + 1, newSecrets, existingSecrets, h)
         ELSE LET es == existingSecrets[j]
                  a  == mergeMapStringString(h, es.annotations, newSecrets[i].annotations)
                  lb == mergeMapStringString(a.heap, es.labels, newSecrets[i].labels)
              IN  IF a.panic \/ lb.panic
                  THEN [panic |-> TRUE, secrets |-> newSecrets, heap |-> h]
                  ELSE updateSecretDataFrom(
                           i + 1,
                           [newSecrets EXCEPT ![i] = MergedSecret(es, a.ret, lb.ret)],
                           existingSecrets, lb.heap)

updateSecretData(newSecrets, existingSecrets, h) ==
    updateSecretDataFrom(1, newSecrets, existingSecrets, h)

-----------------------------------------------------------------------------
(* Secret Store Gateway: the cluster behind k8sClient.                     *)
(* A stored secret is [uid, resourceVersion, creationTimestamp, labels,    *)
(* annotations, data], labels and annotations being contents.  Every call  *)
(* may fail for a reason of its own (network, admission); it must fail     *)
(* when the cluster cannot serve it: Create of a secret that exists,       *)
(* Update, Get and Delete of one that does not, Update with a stale UID or *)
(* resourceVersion.                                                        *)

Call(op, ns, name, i, ok) == [op |-> op, ns |-> ns, name |-> name, idx |-> i, ok |-> ok]

\* what call op for object i carried
Sent(op, i, obj) == [op |-> op, idx |-> i, obj |-> obj]

\* a call that carries only a namespace or a namespace and a name
NoObject == [none |-> TRUE]

\* the secret a Create or Update carries, its maps by content
Submitted(secret, h) ==
    [namespace |-> secret.namespace, name |-> secret.name,
     labels |-> KV(h, secret.labels), annotations |-> KV(h, secret.annotations),
     data |-> secret.data, uid |-> secret.uid,
     resourceVersion |-> secret.resourceVersion,
     creationTimestamp |-> secret.creationTimestamp]

Exists(k) == k \in DOMAIN cluster

\* what the server stores of a submitted secret; it sets the creation time itself
\* when it creates the secret and keeps it afterwards
Stored(secret, h, uid, rv) ==
    [uid |-> uid, resourceVersion |-> rv,
     creationTimestamp |-> IF Exists(Key(secret))
                           THEN cluster[Key(secret)].creationTimestamp ELSE rv,
     labels |-> KV(h, secret.labels), annotations |-> KV(h, secret.annotations),
     data |-> secret.data]

Put(k, obj) == [x \in (DOMAIN cluster) \cup {k} |-> IF x = k THEN obj ELSE cluster[x]]
Remove(k) == [x \in (DOMAIN cluster) \ {k} |-> cluster[x]]

CanCreate(secret) == ~Exists(Key(secret))
CanUpdate(secret) ==
    /\ Exists(Key(secret))
    /\ secret.uid = cluster[Key(secret)].uid
    /\ secret.resourceVersion \in {EmptyRV, cluster[Key(secret)].resourceVersion}
CanGet(secret) == Exists(Key(secret))
CanDelete(secret) == Exists(Key(secret))

\* the keys of namespace ns that exist, in the order List returns them
ListKeys(ns) ==
    SelectSeq([n \in 1..Len(NameOrder) |-> <<ns, NameOrder[n]>>], LAMBDA k : Exists(k))

\* the corev1.Secret decoded from the stored secret of key k, as element p of
\* allSecrets; a map without entries comes back as a nil map
LiveSecret(k, p) ==
    [namespace |-> k[1], name |-> k[2],
     labels |-> IF DOMAIN cluster[k].labels = {} THEN Nil ELSE <<"existing", p, "labels">>,
     annotations |-> IF DOMAIN cluster[k].annotations = {} THEN Nil
                     ELSE <<"existing", p, "annotations">>,
     data |-> cluster[k].data, uid |-> cluster[k].uid,
     resourceVersion |-> cluster[k].resourceVersion,
     creationTimestamp |-> cluster[k].creationTimestamp]

LiveHeap(h, k, p) ==
    LET h1 == IF DOMAIN cluster[k].labels = {} THEN h
              ELSE Alloc(h, <<"existing", p, "labels">>, cluster[k].labels)
    IN  IF DOMAIN cluster[k].annotations = {} THEN h1
        ELSE Alloc(h1, <<"existing", p, "annotations">>, cluster[k].annotations)

\* allSecrets = append(allSecrets, s...); acc is [secrets, heap]
RECURSIVE appendLive(_, _, _)
appendLive(keys, n, acc) ==
    IF n > Len(keys) THEN acc
    ELSE LET p == Len(acc.secrets) + 1 IN
         appendLive(keys, n + 1,
                    [secrets |-> Append(acc.secrets, LiveSecret(keys[n], p)),
                     heap |-> LiveHeap(acc.heap, keys[n], p)])

-----------------------------------------------------------------------------
(* main() *)

\* main.go:315
GetSecretFiles ==
    /\ pc = "start"
    /\ secretFiles' = getSecretFiles(input)
    /\ pc' = "parse"
    /\ UNCHANGED <<input, sec, templates, nsc, nsi, allSecrets, heap, heap0, idx, step,
                   cluster, uidCtr, rev, gen, ctlLast, raced, calls, sent, cluster0, scan>>

\* position of main after updateK8sSecrets has handled object i successfully
AfterObject(i) == IF i >= Len(sec) THEN "done" ELSE "apply"

\* main.go:316-321: parseFilesAsSecrets, l.Fatal on its error, secretNamespaces
Parse ==
    /\ pc = "parse"
    /\ LET r == parseFilesAsSecrets(input, secretFiles) IN
       IF r.err
       THEN /\ pc' = "fatal"
            /\ UNCHANGED <<sec, nsc, heap>>
       ELSE /\ sec' = r.secrets
            /\ heap' = r.heap
            /\ nsc' = secretNamespaces(r.secrets)
            /\ pc' = IF Len(r.secrets) = 0 THEN "reconcile" ELSE "list"
    /\ UNCHANGED <<input, secretFiles, templates, nsi, allSecrets, heap0, idx, step,
                   cluster, uidCtr, rev, gen, ctlLast, raced, calls, sent, cluster0, scan>>

\* (mutant) a failed List counts as an empty namespace
ListNamespace_errorIgnored ==
    /\ pc = "list"
    /\ \E ok \in BOOLEAN :
         /\ calls' = Append(calls, Call("List", nsc[nsi], "", 0, ok))
         /\ sent' = Append(sent, Sent("List", 0, NoObject))
         /\ LET r == IF ok THEN appendLive(ListKeys(nsc[nsi]), 1,
                                           [secrets |-> allSecrets, heap |-> heap])
                     ELSE [secrets |-> allSecrets, heap |-> heap]
            IN  /\ allSecrets' = r.secrets
                /\ heap' = r.heap
                /\ nsi' = nsi + 1
                /\ pc' = IF nsi >= Len(nsc) THEN "reconcile" ELSE "list"
    /\ UNCHANGED <<input, secretFiles, sec, templates, nsc, heap0, idx, step,
                   cluster, uidCtr, rev, gen, ctlLast, raced, cluster0, scan>>

\* main.go:323-331: one turn of the loop over nsc, getSecrets included
ListNamespace ==
    /\ pc = "list"
    /\ \E ok \in BOOLEAN :
         /\ calls' = Append(calls, Call("List", nsc[nsi], "", 0, ok))
         /\ sent' = Append(sent, Sent("List", 0, NoObject))
         /\ IF ok
            THEN LET r == appendLive(ListKeys(nsc[nsi]), 1,
                                     [secrets |-> allSecrets, heap |-> heap])
                 IN  /\ allSecrets' = r.secrets
                     /\ heap' = r.heap
                     /\ nsi' = nsi + 1
                     /\ pc' = IF nsi >= Len(nsc) THEN "reconcile" ELSE "list"
            ELSE /\ pc' = "fatal"
                 /\ UNCHANGED <<allSecrets, heap, nsi>>
    /\ UNCHANGED <<input, secretFiles, sec, templates, nsc, heap0, idx, step,
                   cluster, uidCtr, rev, gen, ctlLast, raced, cluster0, scan>>

\* main.go:333-337: updateSecretData; a panic ends the process
Reconcile ==
    /\ pc = "reconcile"
    /\ LET r == updateSecretData(sec, allSecrets, heap) IN
       /\ templates' = sec
       /\ heap0' = heap
       /\ IF r.panic
          THEN /\ pc' = "panic"
               /\ UNCHANGED <<sec, heap>>
          ELSE /\ sec' = r.secrets
               /\ heap' = r.heap
               /\ pc' = IF Len(sec) = 0 THEN "done" ELSE "apply"
    /\ UNCHANGED <<input, secretFiles, nsc, nsi, allSecrets, idx, step,
                   cluster, uidCtr, rev, gen, ctlLast, raced, calls, sent, cluster0, scan>>

-----------------------------------------------------------------------------
(* Applier: updateK8sSecrets, ensureCreateSecret, deleteRecreateSecret.    *)
(* sec[idx] is the object in hand; step is "first" before the Update or    *)
(* Create of ensureCreateSecret and "get", "delete", "create" before the   *)
(* calls of deleteRecreateSecret.                                          *)

Applying(s) == pc = "apply" /\ step = s

\* the object is done: the loop of updateK8sSecrets goes on, or main logs "done"
NextObject ==
    /\ pc' = AfterObject(idx)
    /\ idx' = idx + 1
    /\ step' = "first"

\* (mutant) the error is logged and the loop of updateK8sSecrets goes on
Abort_continues ==
    /\ pc' = AfterObject(idx)
    /\ idx' = idx + 1
    /\ step' = "first"

\* (mutant) the error is dropped and main logs "done"
Abort_success ==
    /\ pc' = "done"
    /\ UNCHANGED <<idx, step>>

\* deleteRecreateSecret returns an error: updateK8sSecrets returns it, main l.Fatal
Abort ==
    /\ pc' = "fatal"
    /\ UNCHANGED <<idx, step>>

\* (mutant) the identity marker survives the cleaning
Cleaned_markerKept(secret) ==
    [secret EXCEPT !.resourceVersion = EmptyRV, !.creationTimestamp = ZeroTime]

\* main.go:218-222: deleteRecreateSecret clears the markers of the object
Cleaned(secret) ==
    [secret EXCEPT !.resourceVersion = EmptyRV, !.uid = EmptyUID,
                   !.creationTimestamp = ZeroTime]

\* the call op for the object in hand; Update and Create carry the object
Issue(op, ok) ==
    /\ calls' = Append(calls, Call(op, sec[idx].namespace, sec[idx].name, idx, ok))
    /\ sent' = Append(sent, Sent(op, idx, IF op \in {"Update", "Create"}
                                          THEN Submitted(sec[idx], heap) ELSE NoObject))

Frame == UNCHANGED <<input, secretFiles, templates, nsc, nsi, allSecrets, heap, heap0,
                     gen, ctlLast, raced, cluster0, scan>>

\* main.go:251-260
UpdateSecret ==
    /\ Applying("first")
    /\ sec[idx].uid # EmptyUID
    /\ \E ok \in {TRUE, FALSE} :
         /\ ok => CanUpdate(sec[idx])
         /\ Issue("Update", ok)
         /\ IF ok
            THEN /\ cluster' = Put(Key(sec[idx]), Stored(sec[idx], heap, sec[idx].uid, rev + 1))
                 /\ rev' = rev + 1
                 /\ NextObject
                 /\ UNCHANGED sec
            ELSE /\ sec' = [sec EXCEPT ![idx] = Cleaned(@)]
                 /\ step' = "get"
                 /\ UNCHANGED <<pc, idx, cluster, rev>>
    /\ UNCHANGED uidCtr
    /\ Frame

\* main.go:261-271
CreateSecret ==
    /\ Applying("first")
    /\ sec[idx].uid = EmptyUID
    /\ \E ok \in {TRUE, FALSE} :
         /\ ok => CanCreate(sec[idx])
         /\ Issue("Create", ok)
         /\ IF ok
            THEN /\ cluster' = Put(Key(sec[idx]), Stored(sec[idx], heap, uidCtr + 1, rev + 1))
                 /\ uidCtr' = uidCtr + 1
                 /\ rev' = rev + 1
                 /\ NextObject
                 /\ UNCHANGED sec
            ELSE /\ sec' = [sec EXCEPT ![idx] = Cleaned(@)]
                 /\ step' = "get"
                 /\ UNCHANGED <<pc, idx, cluster, uidCtr, rev>>
    /\ Frame

\* (mutant) a Get that fails is issued a second time
GetSecret_retried ==
    /\ Applying("get")
    /\ \E ok \in {TRUE, FALSE} :
         /\ ok => CanGet(sec[idx])
         /\ Issue("Get", ok)
         /\ IF ok THEN step' = "delete" /\ UNCHANGED <<pc, idx>>
            ELSE IF calls[Len(calls)].op # "Get" THEN UNCHANGED <<pc, idx, step>>
            ELSE Abort
    /\ UNCHANGED <<sec, cluster, uidCtr, rev>>
    /\ Frame

\* (mutant) the error of Get is ignored and the Delete is issued all the same
GetSecret_errorIgnored ==
    /\ Applying("get")
    /\ \E ok \in {TRUE, FALSE} :
         /\ ok => CanGet(sec[idx])
         /\ Issue("Get", ok)
         /\ step' = "delete"
         /\ UNCHANGED <<pc, idx>>
    /\ UNCHANGED <<sec, cluster, uidCtr, rev>>
    /\ Frame

\* main.go:223-228
GetSecret ==
    /\ Applying("get")
    /\ \E ok \in {TRUE, FALSE} :
         /\ ok => CanGet(sec[idx])
         /\ Issue("Get", ok)
         /\ IF ok THEN step' = "delete" /\ UNCHANGED <<pc, idx>> ELSE Abort
    /\ UNCHANGED <<sec, cluster, uidCtr, rev>>
    /\ Frame

\* (mutant) the error of Delete is ignored and the Create is issued all the same
DeleteSecret_errorIgnored ==
    /\ Applying("delete")
    /\ \E ok \in {TRUE, FALSE} :
         /\ ok => CanDelete(sec[idx])
         /\ Issue("Delete", ok)
         /\ cluster' = IF ok THEN Remove(Key(sec[idx])) ELSE cluster
         /\ step' = "create"
         /\ UNCHANGED <<pc, idx>>
    /\ UNCHANGED <<sec, uidCtr, rev>>
    /\ Frame

\* main.go:229-233
DeleteSecret ==
    /\ Applying("delete")
    /\ \E ok \in {TRUE, FALSE} :
         /\ ok => CanDelete(sec[idx])
         /\ Issue("Delete", ok)
         /\ IF ok
            THEN /\ cluster' = Remove(Key(sec[idx]))
                 /\ step' = "create"
                 /\ UNCHANGED <<pc, idx>>
            ELSE /\ Abort
                 /\ UNCHANGED cluster
    /\ UNCHANGED <<sec, uidCtr, rev>>
    /\ Frame

\* (mutant) the error of the Create of deleteRecreateSecret is only logged
RecreateSecret_errorIgnored ==
    /\ Applying("create")
    /\ \E ok \in {TRUE, FALSE} :
         /\ ok => CanCreate(sec[idx])
         /\ Issue("Create", ok)
         /\ IF ok
            THEN /\ cluster' = Put(Key(sec[idx]), Stored(sec[idx], heap, uidCtr + 1, rev + 1))
                 /\ uidCtr' = uidCtr + 1
                 /\ rev' = rev + 1
            ELSE UNCHANGED <<cluster, uidCtr, rev>>
         /\ NextObject
    /\ UNCHANGED sec
    /\ Frame

\* main.go:234-239
RecreateSecret ==
    /\ Applying("create")
    /\ \E ok \in {TRUE, FALSE} :
         /\ ok => CanCreate(sec[idx])
         /\ Issue("Create", ok)
         /\ IF ok
            THEN /\ cluster' = Put(Key(sec[idx]), Stored(sec[idx], heap, uidCtr + 1, rev + 1))
                 /\ uidCtr' = uidCtr + 1
                 /\ rev' = rev + 1
                 /\ NextObject
            ELSE /\ Abort
                 /\ UNCHANGED <<cluster, uidCtr, rev>>
    /\ UNCHANGED sec
    /\ Frame

-----------------------------------------------------------------------------
(* The maintenance program (src/unnamed/part_000).  Its main() is that of  *)
(* src/main.go up to the List calls: its parser removes the comment lines  *)
(* before it splits the file, so that a document of comment lines only is  *)
(* blank and skipped, as it is in src/main.go.  It then reconciles with    *)
(* updateSecretMetadata and applies with updateK8sSecretsMetadata, which   *)
(* sends one merge patch of metadata per object.                           *)

\* for k, v := range annotationsToMerge { annotations[k] = v }; return annotations
mergeAnnotations(h, annotations, annotationsToMerge) ==
    LET src == KV(h, annotationsToMerge) IN
    IF DOMAIN src = {} THEN [panic |-> FALSE, heap |-> h, ret |-> annotations]
    ELSE IF annotations = Nil THEN [panic |-> TRUE, heap |-> h, ret |-> Nil]
    ELSE [panic |-> FALSE,
          heap |-> [h EXCEPT ![annotations] = Overwrite(@, src)],
          ret |-> annotations]

\* for k, v := range labelsToMerge { labels[k] = v }; return labels
mergeLabels(h, labels, labelsToMerge) ==
    LET src == KV(h, labelsToMerge) IN
    IF DOMAIN src = {} THEN [panic |-> FALSE, heap |-> h, ret |-> labels]
    ELSE IF labels = Nil THEN [panic |-> TRUE, heap |-> h, ret |-> Nil]
    ELSE [panic |-> FALSE,
          heap |-> [h EXCEPT ![labels] = Overwrite(@, src)],
          ret |-> labels]

\* the outer loop from template i on: a matched template stays the template and
\* gets the merged maps; the result is [panic, secrets, heap]
RECURSIVE updateSecretMetadataFrom(_, _, _, _)
updateSecretMetadataFrom(i, newSecrets, existingSecrets, h) ==
    IF i > Len(newSecrets) THEN [panic |-> FALSE, secrets |-> newSecrets, heap |-> h]
    ELSE LET j == FirstMatch(newSecrets[i], existingSecrets) IN
         IF j = 0 THEN updateSecretMetadataFrom(i + 1, newSecrets, existingSecrets, h)
         ELSE LET rs == existingSecrets[j]
                  a  == mergeAnnotations(h, rs.annotations, newSecrets[i].annotations)
                  lb == mergeLabels(a.heap, rs.labels, newSecrets[i].labels)
              IN  IF a.panic \/ lb.panic
                  THEN [panic |-> TRUE, secrets |-> newSecrets, heap |-> h]
                  ELSE updateSecretMetadataFrom(
                           i + 1,
                           [newSecrets EXCEPT ![i].annotations = a.ret, ![i].labels = lb.ret],
                           existingSecrets, lb.heap)

updateSecretMetadata(newSecrets, existingSecrets, h) ==
    updateSecretMetadataFrom(1, newSecrets, existingSecrets, h)

\* part_000:302-306: updateSecretMetadata; a panic ends the process
ReconcileMetadata ==
    /\ pc = "reconcile"
    /\ LET r == updateSecretMetadata(sec, allSecrets, heap) IN
       /\ templates' = sec
       /\ heap0' = heap
       /\ IF r.panic
          THEN /\ pc' = "panic"
               /\ UNCHANGED <<sec, heap>>
          ELSE /\ sec' = r.secrets
               /\ heap' = r.heap
               /\ pc' = IF Len(sec) = 0 THEN "done" ELSE "apply"
    /\ UNCHANGED <<input, secretFiles, nsc, nsi, allSecrets, idx, step,
                   cluster, uidCtr, rev, gen, ctlLast, raced, calls, sent, cluster0, scan>>

\* json.Marshal of a map[string]string: null for a nil map, an object otherwise
JSONMap(h, ref) == [null |-> ref = Nil, kv |-> KV(h, ref)]

\* (mutant) the patch carries the data of the object as well
PatchBody_withData(secret, h) ==
    [annotations |-> JSONMap(h, secret.annotations), labels |-> JSONMap(h, secret.labels),
     data |-> secret.data]

\* part_000:220-226: patchData, the "metadata" member of the merge patch
PatchBody(secret, h) ==
    [annotations |-> JSONMap(h, secret.annotations), labels |-> JSONMap(h, secret.labels)]

\* a JSON merge patch of one map: null removes the map, a member sets its key
MergePatch(stored, j) == IF j.null THEN EmptyKV ELSE Overwrite(stored, j.kv)

\* the stored secret after the merge patch body
Patched(obj, body, rv) ==
    [obj EXCEPT !.labels = MergePatch(@, body.labels),
                !.annotations = MergePatch(@, body.annotations),
                !.data = IF "data" \in DOMAIN body THEN body.data ELSE @,
                !.resourceVersion = rv]

\* the answers of the Gateway to a patch: done, an error whose text contains
\* "not found" (that of a secret that does not exist is one), any other error
PatchAnswers == {"ok", "not found", "error"}

\* a patch of a secret that does not exist is answered with an error
CanPatch(secret, answer) == answer = "ok" => Exists(Key(secret))

PatchCall(ns, name, i, answer) ==
    [op |-> "Patch", ns |-> ns, name |-> name, idx |-> i, ok |-> answer = "ok",
     answer |-> answer]

\* (mutant) every error of the patch is returned
Recovered_never(answer) == FALSE

\* part_000:233-237: strings.Contains(err.Error(), "not found")
Recovered(answer) == answer = "not found"

\* part_000:251-258 and 212-242: one turn of the loop of updateK8sSecretsMetadata
PatchSecretMetadata ==
    /\ Applying("first")
    /\ \E answer \in PatchAnswers :
         /\ CanPatch(sec[idx], answer)
         /\ calls' = Append(calls, PatchCall(sec[idx].namespace, sec[idx].name, idx, answer))
         /\ sent' = Append(sent, Sent("Patch", idx, PatchBody(sec[idx], heap)))
         /\ IF answer = "ok"
            THEN /\ cluster' = [cluster EXCEPT ![Key(sec[idx])] =
                                    Patched(@, PatchBody(sec[idx], heap), rev + 1)]
                 /\ rev' = rev + 1
            ELSE UNCHANGED <<cluster, rev>>
         /\ IF answer = "ok" \/ Recovered(answer) THEN NextObject ELSE Abort
    /\ UNCHANGED <<sec, uidCtr>>
    /\ Frame

-----------------------------------------------------------------------------
(* The program without the recreate fallback (src/unnamed/part_001).       *)
(* Its parser has no removeComments: a document of comment lines only is   *)
(* not blank and is handed to the deserializer, which returns the error of *)
(* a document without kind.  Its updateSecretData merges the maps of the   *)
(* template with themselves, and its updateK8sSecrets sends one Update or  *)
(* Create per object and returns the first error.                          *)

\* part_001:119-138: the loop over the documents of one file; acc is
\* [err, secrets, heap, decoded]
RECURSIVE part001_parseDocs(_, _, _)
part001_parseDocs(docs, d, acc) ==
    IF d > Len(docs) THEN acc
    ELSE LET doc == docs[d] IN
         IF doc.kind = "blank" THEN part001_parseDocs(docs, d + 1, acc)
         ELSE IF doc.kind \in {"comment", "undecodable"}
              THEN [acc EXCEPT !.err = TRUE, !.secrets = <<>>,
                               !.decoded = Append(@, doc.kind)]
         ELSE IF doc.kind = "Secret"
              THEN LET i == Len(acc.secrets) + 1 IN
                   part001_parseDocs(docs, d + 1,
                             [acc EXCEPT !.secrets = Append(@, DecodedSecret(doc.obj, i)),
                                         !.heap = DecodedHeap(@, doc.obj, i),
                                         !.decoded = Append(@, doc.kind)])
         ELSE part001_parseDocs(docs, d + 1, [acc EXCEPT !.decoded = Append(@, doc.kind)])

\* part_001:111-140: the loop over the files
RECURSIVE part001_parseFiles(_, _, _, _)
part001_parseFiles(dir, files, f, acc) ==
    IF f > Len(files) THEN acc
    ELSE LET file == dir.entries[files[f]] IN
         IF ~file.readable THEN [acc EXCEPT !.err = TRUE, !.secrets = <<>>]
         ELSE LET r == part001_parseDocs(file.docs, 1, acc) IN
              IF r.err THEN r ELSE part001_parseFiles(dir, files, f + 1, r)

part001_parseFilesAsSecrets(dir, files) ==
    part001_parseFiles(dir, files, 1,
                       [err |-> FALSE, secrets |-> <<>>, heap |-> EmptyKV, decoded |-> <<>>])

\* part_001:247-252: parseFilesAsSecrets, l.Fatal on its error, secretNamespaces
part001_Parse ==
    /\ pc = "parse"
    /\ LET r == part001_parseFilesAsSecrets(input, secretFiles) IN
       IF r.err
       THEN /\ pc' = "fatal"
            /\ UNCHANGED <<sec, nsc, heap>>
       ELSE /\ sec' = r.secrets
            /\ heap' = r.heap
            /\ nsc' = secretNamespaces(r.secrets)
            /\ pc' = IF Len(r.secrets) = 0 THEN "reconcile" ELSE "list"
    /\ UNCHANGED <<input, secretFiles, templates, nsi, allSecrets, heap0, idx, step,
                   cluster, uidCtr, rev, gen, ctlLast, raced, calls, sent, cluster0, scan>>

\* for k, v := range annotationsToMerge { annotations[k] = v }; return annotations
part001_mergeAnnotations(h, annotations, annotationsToMerge) ==
    LET src == KV(h, annotationsToMerge) IN
    IF DOMAIN src = {} THEN [panic |-> FALSE, heap |-> h, ret |-> annotations]
    ELSE IF annotations = Nil THEN [panic |-> TRUE, heap |-> h, ret |-> Nil]
    ELSE [panic |-> FALSE,
          heap |-> [h EXCEPT ![annotations] = Overwrite(@, src)],
          ret |-> annotations]

\* the outer loop from template i on; ls is newSecrets[i], so both arguments of
\* each merge are maps of the template; the result is [panic, secrets, heap]
RECURSIVE part001_updateSecretDataFrom(_, _, _, _)
part001_updateSecretDataFrom(i, newSecrets, existingSecrets, h) ==
    IF i > Len(newSecrets) THEN [panic |-> FALSE, secrets |-> newSecrets, heap |-> h]
    ELSE LET j == FirstMatch(newSecrets[i], existingSecrets) IN
         IF j = 0 THEN part001_updateSecretDataFrom(i + 1, newSecrets, existingSecrets, h)
         ELSE LET ls == newSecrets[i]
                  rs == existingSecrets[j]
                  a  == part001_mergeAnnotations(h, newSecrets[i].annotations,
                                                 ls.annotations)
                  lb == part001_mergeAnnotations(a.heap, newSecrets[i].labels, ls.labels)
              IN  IF a.panic \/ lb.panic
                  THEN [panic |-> TRUE, secrets |-> newSecrets, heap |-> h]
                  ELSE part001_updateSecretDataFrom(
                           i + 1,
                           [newSecrets EXCEPT ![i] = MergedSecret(rs, a.ret, lb.ret)],
                           existingSecrets, lb.heap)

part001_updateSecretData(newSecrets, existingSecrets, h) ==
    part001_updateSecretDataFrom(1, newSecrets, existingSecrets, h)

\* part_001:264-268: updateSecretData; a panic ends the process
part001_Reconcile ==
    /\ pc = "reconcile"
    /\ LET r == part001_updateSecretData(sec, allSecrets, heap) IN
       /\ templates' = sec
       /\ heap0' = heap
       /\ IF r.panic
          THEN /\ pc' = "panic"
               /\ UNCHANGED <<sec, heap>>
          ELSE /\ sec' = r.secrets
               /\ heap' = r.heap
               /\ pc' = IF Len(sec) = 0 THEN "done" ELSE "apply"
    /\ UNCHANGED <<input, secretFiles, nsc, nsi, allSecrets, idx, step,
                   cluster, uidCtr, rev, gen, ctlLast, raced, calls, sent, cluster0, scan>>

\* part_001:201-209: the Update of updateK8sSecrets; its error is returned to
\* main, which calls l.Fatal
part001_UpdateSecret ==
    /\ Applying("first")
    /\ sec[idx].uid # EmptyUID
    /\ \E ok \in {TRUE, FALSE} :
         /\ ok => CanUpdate(sec[idx])
         /\ Issue("Update", ok)
         /\ IF ok
            THEN /\ cluster' = Put(Key(sec[idx]), Stored(sec[idx], heap, sec[idx].uid, rev + 1))
                 /\ rev' = rev + 1
                 /\ NextObject
            ELSE /\ Abort
                 /\ UNCHANGED <<cluster, rev>>
    /\ UNCHANGED <<sec, uidCtr>>
    /\ Frame

\* part_001:210-218: the Create of updateK8sSecrets; its error is returned to
\* main, which calls l.Fatal
part001_CreateSecret ==
    /\ Applying("first")
    /\ sec[idx].uid = EmptyUID
    /\ \E ok \in {TRUE, FALSE} :
         /\ ok => CanCreate(sec[idx])
         /\ Issue("Create", ok)
         /\ IF ok
            THEN /\ cluster' = Put(Key(sec[idx]), Stored(sec[idx], heap, uidCtr + 1, rev + 1))
                 /\ uidCtr' = uidCtr + 1
                 /\ rev' = rev + 1
                 /\ NextObject
            ELSE /\ Abort
                 /\ UNCHANGED <<cluster, uidCtr, rev>>
    /\ UNCHANGED sec
    /\ Frame

-----------------------------------------------------------------------------
(* The external controller (README: "the secret data is managed and        *)
(* updated by a cluster-internal operator").  While the run talks to the   *)
(* cluster it creates a secret the templates name or writes a new payload  *)
(* into one.                                                               *)

\* the keys the templates of the run name
TemplateKeys == {Key(sec[i]) : i \in 1..Len(sec)}

\* the namespaces whose List call has returned
Listed ==
    IF pc = "list" THEN {nsc[n] : n \in 1..(nsi - 1)}
    ELSE IF pc \in {"reconcile", "apply"} THEN {nsc[n] : n \in 1..Len(nsc)}
    ELSE {}

Controller ==
    /\ pc \in {"list", "reconcile", "apply"}
    /\ gen <= MaxCtlWrites
    /\ \E k \in TemplateKeys :
         /\ gen' = gen + 1
         /\ rev' = rev + 1
         /\ IF Exists(k)
            THEN /\ cluster' = [cluster EXCEPT ![k].data = Payload(gen + 1),
                                               ![k].resourceVersion = rev + 1]
                 /\ UNCHANGED uidCtr
            ELSE /\ cluster' = Put(k, [uid |-> uidCtr + 1, resourceVersion |-> rev + 1,
                                       creationTimestamp |-> rev + 1,
                                       labels |-> EmptyKV, annotations |-> EmptyKV,
                                       data |-> Payload(gen + 1)])
                 /\ uidCtr' = uidCtr + 1
         /\ ctlLast' = [ctlLast EXCEPT ![k] = Payload(gen + 1)]
         /\ raced' = IF k[1] \in Listed THEN raced \cup {k} ELSE raced
    /\ UNCHANGED <<input, pc, secretFiles, sec, templates, nsc, nsi, allSecrets, heap, heap0,
                   idx, step, calls, sent, cluster0, scan>>

-----------------------------------------------------------------------------
(* Initial states. *)

NilMap == [isNil |-> TRUE, kv |-> EmptyKV]
Map(kv) == [isNil |-> FALSE, kv |-> kv]

\* every content with keys among ks and values among vs
Contents(ks, vs) == UNION {[d -> vs] : d \in SUBSET ks}

\* a document of the kind Secret whose metadata carries no marker
Template(ns, name, labels, annotations, data) ==
    [namespace |-> ns, name |-> name, labels |-> labels, annotations |-> annotations,
     data |-> data, uid |-> EmptyUID, resourceVersion |-> EmptyRV,
     creationTimestamp |-> ZeroTime]

\* the markers of a document written from a stored secret: all of them, or all
\* but the uid.  The uid and the resourceVersion are those the cluster gave the
\* first secret of KeyOrder.
DocMarkers ==
    { [uid |-> 1, resourceVersion |-> 1, creationTimestamp |-> 1],
      [uid |-> EmptyUID, resourceVersion |-> 1, creationTimestamp |-> 1] }

\* the document t with the markers m in its metadata
Marked(t, m) ==
    [t EXCEPT !.uid = m.uid, !.resourceVersion = m.resourceVersion,
              !.creationTimestamp = m.creationTimestamp]

SecretDoc(t) == [kind |-> "Secret", obj |-> t]
OtherDoc(kind) == [kind |-> kind, obj |-> Template("", "", NilMap, NilMap, NoPayload)]
File(docs) == [isDir |-> FALSE, readable |-> TRUE, docs |-> docs]
Unreadable == [isDir |-> FALSE, readable |-> FALSE, docs |-> <<>>]
Directory == [isDir |-> TRUE, readable |-> TRUE, docs |-> <<>>]

SecretDocs(tpls) == [n \in 1..Len(tpls) |-> SecretDoc(tpls[n])]

FirstDoc(docs) == IF Len(docs) = 0 THEN <<>> ELSE <<docs[1]>>
RestDocs(docs) == IF Len(docs) = 0 THEN <<>> ELSE Tail(docs)

\* a directory with a subdirectory and two files: the first template between a blank
\* document and one of another kind, the other templates after a comment document
GoodEntries(tpls) ==
    << Directory,
       File(<<OtherDoc("blank")>> \o FirstDoc(SecretDocs(tpls)) \o <<OtherDoc("other")>>),
       File(<<OtherDoc("comment")>> \o RestDocs(SecretDocs(tpls))) >>

\* the directories that hold the templates tpls, and the ways of failing to read them
Layouts(tpls) ==
    { [dirOK |-> TRUE, entries |-> GoodEntries(tpls)],
      [dirOK |-> FALSE, entries |-> GoodEntries(tpls)],
      [dirOK |-> TRUE, entries |-> <<File(SecretDocs(tpls)), Unreadable>>],
      [dirOK |-> TRUE, entries |-> <<File(SecretDocs(tpls) \o <<OtherDoc("undecodable")>>)>>] }

\* the templates of a full run
RunTemplates ==
    { Template(ns, name, NilMap, NilMap, NoPayload) : ns \in Namespaces, name \in Names }
    \cup
    { Template(ns, name, Map([k \in {"x"} |-> "t1"]), NilMap, Payload(0)) :
        ns \in Namespaces, name \in Names }
    \cup
    { Marked(Template(ns, name, Map([k \in {"x"} |-> "t1"]), NilMap, Payload(0)), m) :
        ns \in Namespaces, name \in Names, m \in DocMarkers }

\* the stored secrets a full run may find
RunLive ==
    [labels : Contents({"x"}, {"l"}), annotations : {[k \in {"y"} |-> "l"]},
     data : {NoPayload, Payload(1)}]

KeyOrder == [n \in 1..(Len(NameOrder) * 2) |->
                <<IF n <= Len(NameOrder) THEN "a" ELSE "b",
                  NameOrder[((n - 1) % Len(NameOrder)) + 1]>>]
KeyIndex(k) == CHOOSE n \in 1..Len(KeyOrder) : KeyOrder[n] = k

\* the clusters in which the secrets of the keys in P exist, drawn from live
Clusters(P, live) ==
    { [k \in P |-> [uid |-> KeyIndex(k), resourceVersion |-> KeyIndex(k),
                    creationTimestamp |-> KeyIndex(k),
                    labels |-> c[k].labels, annotations |-> c[k].annotations,
                    data |-> c[k].data]] : c \in [P -> live] }

InitRest ==
    /\ secretFiles = <<>>
    /\ templates = <<>>
    /\ nsi = 1
    /\ idx = 1
    /\ step = "first"
    /\ uidCtr = Len(KeyOrder)
    /\ rev = Len(KeyOrder)
    /\ gen = 1
    /\ ctlLast = [k \in Keys |-> IF Exists(k) THEN cluster[k].data ELSE NoPayload]
    /\ raced = {}
    /\ calls = <<>>
    /\ sent = <<>>
    /\ cluster0 = cluster
    /\ heap0 = EmptyKV

\* no file is read as text
NoScan == [content |-> <<>>, rejects |-> {}, handed |-> <<>>, err |-> FALSE]

\* main() before line 311, with the templates tpls in the directory dir and the
\* stored secrets cl in the cluster
Start(dir, cl) ==
    /\ input = dir
    /\ cluster = cl
    /\ pc = "start"
    /\ sec = <<>>
    /\ nsc = <<>>
    /\ allSecrets = <<>>
    /\ heap = EmptyKV
    /\ scan = NoScan
    /\ InitRest

Init ==
    \E tpls \in UNION {[1..n -> RunTemplates] : n \in 0..MaxTemplates} :
        \E dir \in Layouts(tpls), P \in SUBSET Keys :
            \E cl \in Clusters(P, RunLive) : Start(dir, cl)

Run ==
    \/ GetSecretFiles
    \/ Parse
    \/ ListNamespace
    \/ Reconcile
    \/ UpdateSecret
    \/ CreateSecret
    \/ GetSecret
    \/ DeleteSecret
    \/ RecreateSecret

\* one run against a cluster that only the run changes
Next == Run

Spec == Init /\ [][Next]_vars

\* the run goes on as long as it has a step to take: main() is one sequential
\* control flow and every Gateway call returns
FairTemplates ==
    { Template(ns, name, NilMap, annotations, NoPayload) :
        ns \in Namespaces, name \in Names,
        annotations \in {NilMap, Map([k \in {"x"} |-> "t1"])} }
    \cup
    { Marked(Template(ns, name, NilMap, NilMap, NoPayload), m) :
        ns \in Namespaces, name \in Names, m \in {m \in DocMarkers : m.uid # EmptyUID} }

FairLive ==
    [labels : {[k \in {"x"} |-> "l"]}, annotations : {EmptyKV}, data : {Payload(1)}]

InitFair ==
    \E tpls \in UNION {[1..n -> FairTemplates] : n \in 0..MaxTemplates} :
        \E dir \in Layouts(tpls), P \in SUBSET Keys :
            \E cl \in Clusters(P, FairLive) : Start(dir, cl)

SpecFair == InitFair /\ [][Next]_vars /\ WF_vars(Next)

\* the templates and the stored secrets of a run next to the controller: the
\* payloads vary, the metadata does not
RaceTemplates ==
    { Template(ns, name, NilMap, NilMap, NoPayload) : ns \in Namespaces, name \in Names }
    \cup
    { Marked(Template(ns, name, NilMap, NilMap, Payload(0)), m) :
        ns \in Namespaces, name \in Names, m \in DocMarkers }

RaceLive ==
    [labels : {[k \in {"x"} |-> "l"]}, annotations : {EmptyKV},
     data : {NoPayload, Payload(1)}]

InitRace ==
    \E tpls \in UNION {[1..n -> RaceTemplates] : n \in 0..MaxTemplates} :
        \E P \in SUBSET Keys :
            \E cl \in Clusters(P, RaceLive) :
                Start([dirOK |-> TRUE, entries |-> GoodEntries(tpls)], cl)

\* one run next to the external controller
NextRace == Run \/ Controller

SpecRace == InitRace /\ [][NextRace]_vars

-----------------------------------------------------------------------------
(* updateSecretData on its own: main() up to line 337, for templates and   *)
(* stored secrets with every shape of label and annotation map.            *)

\* the first template of a sequence: every combination of maps and payload
RichTemplates ==
    { Template(ns, name, labels, annotations, data) :
        ns \in Namespaces, name \in Names,
        labels \in {NilMap} \cup {Map(kv) : kv \in Contents({"x", "y"}, {"t1"})},
        annotations \in {NilMap} \cup {Map(kv) : kv \in Contents({"x", "y"}, {"t1"})},
        data \in {NoPayload, Payload(0)} }
    \cup
    { Marked(Template(ns, name, NilMap, NilMap, NoPayload), m) :
        ns \in Namespaces, name \in Names, m \in DocMarkers }

\* the templates that follow it
FollowTemplates ==
    { Template(ns, name, labels, NilMap, NoPayload) :
        ns \in Namespaces, name \in Names,
        labels \in {Map([k \in {"x"} |-> "t2"]), Map([k \in {"y"} |-> "t2"])} }

NewSecretSeqs ==
    { <<t>> \o f : t \in RichTemplates,
                   f \in UNION {[1..n -> FollowTemplates] : n \in 0..(MaxNew - 1)} }

RichLive ==
    [labels : Contents({"x", "y"}, {"l"}), annotations : Contents({"x", "y"}, {"l"}),
     data : {NoPayload, Payload(1)}]

PlainLive ==
    [labels : {[k \in {"x"} |-> "l"]}, annotations : {EmptyKV}, data : {Payload(1)}]

InitReconcile ==
    \E tpls \in NewSecretSeqs :
        \E A \in SUBSET {<<"a", "s1">>}, B \in SUBSET {<<"b", "s1">>} :
            \E ca \in Clusters(A, RichLive), cb \in Clusters(B, PlainLive) :
                Start([dirOK |-> TRUE, entries |-> <<File(SecretDocs(tpls))>>],
                      [k \in A \cup B |-> IF k \in A THEN ca[k] ELSE cb[k]])

\* main() up to the return of updateSecretData
NextReconcile ==
    \/ GetSecretFiles
    \/ Parse
    \/ ListNamespace
    \/ Reconcile

SpecReconcile == InitReconcile /\ [][NextReconcile]_vars

-----------------------------------------------------------------------------
(* The discovery phase on its own: main() up to line 337, for templates    *)
(* that differ in their namespace only, one of them a namespace without    *)
(* any stored secret.                                                      *)

DiscoverNamespaces == Namespaces \cup {"c"}

DiscoverTemplates ==
    { Template(ns, NameOrder[1], NilMap, NilMap, NoPayload) : ns \in DiscoverNamespaces }

InitDiscover ==
    \E tpls \in UNION {[1..n -> DiscoverTemplates] : n \in 0..MaxDiscover} :
        \E P \in SUBSET Keys :
            \E cl \in Clusters(P, PlainLive) :
                Start([dirOK |-> TRUE, entries |-> GoodEntries(tpls)], cl)

SpecDiscover == InitDiscover /\ [][NextReconcile]_vars

-----------------------------------------------------------------------------
(* The parser on its own: main() up to line 321, for every sequence of up   *)
(* to MaxDocs documents of every kind, split in every way over two files    *)
(* that have a subdirectory between them.                                  *)

\* the documents of the files: one of each kind that is no Secret, and two
\* Secrets that differ in every field
DocPool ==
    { OtherDoc("blank"), OtherDoc("comment"), OtherDoc("other"), OtherDoc("undecodable"),
      SecretDoc(Template("a", NameOrder[1], Map([k \in {"x"} |-> "t1"]), NilMap, Payload(0))),
      SecretDoc(Marked(Template("b", NameOrder[1], NilMap, Map([k \in {"y"} |-> "t2"]),
                                NoPayload),
                       [uid |-> 1, resourceVersion |-> 1, creationTimestamp |-> 1])) }

InitParse ==
    \E docs \in UNION {[1..n -> DocPool] : n \in 0..MaxDocs} :
        \E k \in 0..Len(docs), cl \in Clusters({}, PlainLive) :
            Start([dirOK |-> TRUE,
                   entries |-> << File(SubSeq(docs, 1, k)), Directory,
                                  File(SubSeq(docs, k + 1, Len(docs))) >>],
                  cl)

\* main() up to the return of secretNamespaces
NextParse ==
    \/ GetSecretFiles
    \/ Parse

SpecParse == InitParse /\ [][NextParse]_vars

-----------------------------------------------------------------------------
(* The parser on the text of one file: every content of up to MaxText      *)
(* characters, with every choice of the documents decode returns an error  *)
(* for.                                                                    *)

Texts == UNION {[1..n -> Chars] : n \in 0..MaxText}

\* the documents of content t that decode is called with when no call fails
Decodable(t) ==
    LET h == decodeInputs(Split(t, "---"), 1, <<>>, {}).handed
    IN  {h[n] : n \in 1..Len(h)}

InitComments ==
    \E t \in Texts : \E bad \in SUBSET Decodable(t) :
        /\ input = [dirOK |-> TRUE, entries |-> <<>>]
        /\ cluster = EmptyKV
        /\ pc = "start"
        /\ sec = <<>>
        /\ nsc = <<>>
        /\ allSecrets = <<>>
        /\ heap = EmptyKV
        /\ scan = [content |-> t, rejects |-> bad, handed |-> <<>>, err |-> FALSE]
        /\ InitRest

NextComments == ScanFile

SpecComments == InitComments /\ [][NextComments]_vars

-----------------------------------------------------------------------------
(* One run of the program without the recreate fallback, from the inputs   *)
(* of SpecReconcile and from directories with a document of comment lines. *)

InitNoFallback ==
    \/ InitReconcile
    \/ \E tpls \in UNION {[1..n -> FollowTemplates] : n \in 0..(MaxNew - 1)} :
          \E P \in SUBSET Keys :
              \E cl \in Clusters(P, PlainLive) :
                  Start([dirOK |-> TRUE, entries |-> GoodEntries(tpls)], cl)

NextNoFallback ==
    \/ GetSecretFiles
    \/ part001_Parse
    \/ ListNamespace
    \/ part001_Reconcile
    \/ part001_UpdateSecret
    \/ part001_CreateSecret

SpecNoFallback == InitNoFallback /\ [][NextNoFallback]_vars

-----------------------------------------------------------------------------
(* One run of the maintenance program, from the inputs of a full run. *)

NextMaintenance ==
    \/ GetSecretFiles
    \/ Parse
    \/ ListNamespace
    \/ ReconcileMetadata
    \/ PatchSecretMetadata

SpecMaintenance == Init /\ [][NextMaintenance]_vars

-----------------------------------------------------------------------------
(* Vocabulary of the properties. *)

\* updateSecretData has returned
Reconciled == pc \in {"apply", "done"} \/ (pc = "fatal" /\ Len(templates) > 0)

\* the live objects of the snapshot with the namespace and name of template i
LiveOf(i) ==
    {j \in 1..Len(allSecrets) :
        /\ allSecrets[j].namespace = templates[i].namespace
        /\ allSecrets[j].name = templates[i].name}

\* labels and annotations as they were before and as they are after the merge
Before(ref) == KV(heap0, ref)
After(ref) == KV(heap, ref)

-----------------------------------------------------------------------------
\* C1: for every template with a live object of the same namespace and name in
\* the snapshot, the reconciled object's data is the live object's data, whatever
\* the template's data.
C1_DataPreserved ==
    Reconciled =>
        \A i \in 1..Len(templates) : \A j \in LiveOf(i) : sec[i].data = allSecrets[j].data

\* a matched template with a payload of its own, reconciled to the live payload
C1_Witness ==
    /\ Reconciled
    /\ \E i \in 1..Len(templates) : \E j \in LiveOf(i) :
         /\ templates[i].data = Payload(0)
         /\ allSecrets[j].data = Payload(1)
         /\ sec[i].data = Payload(1)

-----------------------------------------------------------------------------
\* The merged map of a matched template, as the claims state it: the keys of
\* both maps, the template's value where both have the key.
Wins(merged, tpl, live) ==
    \A k \in (DOMAIN tpl) \cap (DOMAIN live) : k \in DOMAIN merged /\ merged[k] = tpl[k]

IsUnion(merged, tpl, live) ==
    /\ DOMAIN merged = (DOMAIN tpl) \cup (DOMAIN live)
    /\ \A k \in (DOMAIN tpl) \ (DOMAIN live) : merged[k] = tpl[k]
    /\ \A k \in (DOMAIN live) \ (DOMAIN tpl) : merged[k] = live[k]

\* C3: for every template with a matching live object and every key in both the
\* template's and the live object's label map (annotation map), the reconciled
\* object's value for the key is the template's value.
C3_CollisionPrecedence ==
    Reconciled =>
        \A i \in 1..Len(templates) : \A j \in LiveOf(i) :
            /\ Wins(After(sec[i].labels), Before(templates[i].labels),
                    Before(allSecrets[j].labels))
            /\ Wins(After(sec[i].annotations), Before(templates[i].annotations),
                    Before(allSecrets[j].annotations))

\* C4: for every template with a matching live object, the keys of the reconciled
\* object's labels (annotations) are those of the template's and of the live
\* object's map, and a key of only one of the two maps keeps that map's value.
C4_MetadataUnion ==
    Reconciled =>
        \A i \in 1..Len(templates) : \A j \in LiveOf(i) :
            /\ IsUnion(After(sec[i].labels), Before(templates[i].labels),
                       Before(allSecrets[j].labels))
            /\ IsUnion(After(sec[i].annotations), Before(templates[i].annotations),
                       Before(allSecrets[j].annotations))

\* the templates of which no two have the same namespace and name
UniqueKeys ==
    \A i1, i2 \in 1..Len(templates) : Key(templates[i1]) = Key(templates[i2]) => i1 = i2

\* what remains of C3 and C4 when no two templates share a key
C3_UniqueKeys == UniqueKeys => C3_CollisionPrecedence
C4_UniqueKeys == UniqueKeys => C4_MetadataUnion

-----------------------------------------------------------------------------
(* Vocabulary of the properties of the Applier. *)

\* the Gateway calls issued for object i, in order
CallsFor(i) == SelectSeq(calls, LAMBDA c : c.idx = i)

Ops(cs) == [n \in 1..Len(cs) |-> cs[n].op]

\* ensureCreateSecret has returned for object i
Returned(i) == i < idx \/ (i = idx /\ pc = "fatal" /\ step # "first")

Mutating == {"Create", "Update", "Delete"}

\* C5 as stated: an unmatched template is reconciled to itself, and the Applier
\* issues exactly one Create for it and no Update, Get or Delete.
C5_ExactlyOneCreate ==
    Reconciled =>
        \A i \in 1..Len(templates) :
            (LiveOf(i) = {} /\ Returned(i)) =>
                /\ sec[i] = templates[i]
                /\ After(sec[i].labels) = Before(templates[i].labels)
                /\ After(sec[i].annotations) = Before(templates[i].annotations)
                /\ Ops(CallsFor(i)) = <<"Create">>

\* what remains of C5 for a template whose document carries no identity marker:
\* the reconciled object is the template verbatim, the first call the Applier
\* issues for it is a Create, no Update is ever issued for it, when that Create
\* succeeds no further call is issued for it, and when it fails the Get of the
\* Recreate path follows
C5_CreateFirst ==
    Reconciled =>
        \A i \in 1..Len(templates) :
            (LiveOf(i) = {} /\ templates[i].uid = EmptyUID) =>
                /\ sec[i] \in {templates[i], Cleaned(templates[i])}
                /\ After(sec[i].labels) = Before(templates[i].labels)
                /\ After(sec[i].annotations) = Before(templates[i].annotations)
                /\ LET cs == CallsFor(i) IN
                   /\ Returned(i) => Len(cs) >= 1
                   /\ Len(cs) >= 1 => cs[1].op = "Create"
                   /\ (Len(cs) >= 1 /\ cs[1].ok) => Len(cs) = 1
                   /\ (Returned(i) /\ ~cs[1].ok) => (Len(cs) >= 2 /\ cs[2].op = "Get")
                   /\ \A n \in 1..Len(cs) : cs[n].op # "Update"

\* an unmatched template with labels and data, created by a single call
C5_Witness ==
    /\ pc = "done"
    /\ \E i \in 1..Len(templates) :
         /\ LiveOf(i) = {}
         /\ Before(templates[i].labels) # EmptyKV
         /\ templates[i].data = Payload(0)
         /\ CallsFor(i) = <<Call("Create", templates[i].namespace, templates[i].name, i, TRUE)>>

\* the calls of deleteRecreateSecret for an object whose first call failed
Fallback(i) == Tail(CallsFor(i))

UpdateFailed(i) ==
    /\ Len(CallsFor(i)) >= 1
    /\ CallsFor(i)[1].op = "Update"
    /\ ~CallsFor(i)[1].ok

\* C6 as stated: after a failed Update the Applier issues exactly one Get, one
\* Delete and one Create in that order, unless the Get fails, in which case it
\* issues neither Delete nor Create and the run fails.
C6_GetDeleteCreate ==
    \A i \in 1..Len(templates) :
        (UpdateFailed(i) /\ Returned(i)) =>
            \/ Ops(Fallback(i)) = <<"Get", "Delete", "Create">>
            \/ /\ Ops(Fallback(i)) = <<"Get">>
               /\ ~Fallback(i)[1].ok
               /\ pc = "fatal"

\* C6 amended: after a failed Update the Applier issues one Get; if the Get
\* succeeds one Delete; if the Delete succeeds one Create, in that order.  If the
\* Get fails neither Delete nor Create is issued, if the Delete fails no Create is
\* issued, and in both cases, as when the Create fails, the run reports failure.
C6_FallbackSequence ==
    \A i \in 1..Len(templates) :
        UpdateFailed(i) =>
            LET f == Fallback(i) IN
            /\ \E n \in 0..3 : Ops(f) = SubSeq(<<"Get", "Delete", "Create">>, 1, n)
            /\ \A n \in 1..(Len(f) - 1) : f[n].ok
            /\ Returned(i) =>
                 /\ Len(f) >= 1
                 /\ f[Len(f)].ok => Len(f) = 3
                 /\ (~f[Len(f)].ok) <=> (pc = "fatal" /\ idx = i)

\* a failed Update followed by Get, Delete and Create, and a run that goes on
C6_Witness ==
    \E i \in 1..Len(templates) :
        /\ UpdateFailed(i)
        /\ Returned(i)
        /\ Ops(Fallback(i)) = <<"Get", "Delete", "Create">>
        /\ Fallback(i)[3].ok
        /\ pc = "done"

-----------------------------------------------------------------------------
\* C7: for every template with a matching live object, the reconciled object
\* carries the live object's identity marker and resourceVersion, the first call
\* the Applier issues for it is an Update, never a Create, and when that Update
\* succeeds no further call is issued for the object.
C7_UpdateFirst ==
    Reconciled =>
        \A i \in 1..Len(templates) : \A j \in LiveOf(i) :
            LET cs == CallsFor(i) IN
            /\ (Len(cs) = 0 \/ cs[1].ok) =>
                   /\ sec[i].uid = allSecrets[j].uid
                   /\ sec[i].resourceVersion = allSecrets[j].resourceVersion
                   /\ sec[i].uid # EmptyUID
            /\ Returned(i) => Len(cs) >= 1
            /\ Len(cs) >= 1 => cs[1].op = "Update"
            /\ (Len(cs) >= 1 /\ cs[1].ok) => Len(cs) = 1

\* a matched template applied by a single successful Update
C7_Witness ==
    /\ pc = "done"
    /\ \E i \in 1..Len(templates) : \E j \in LiveOf(i) :
         /\ sec[i].uid = allSecrets[j].uid
         /\ CallsFor(i) = <<Call("Update", templates[i].namespace, templates[i].name, i, TRUE)>>

\* the calls of the Applier
ApplyCalls == SelectSeq(calls, LAMBDA c : c.op # "List")

\* call n of the Applier ends the apply of its object in an error
EndsInError(cs, n) ==
    /\ ~cs[n].ok
    /\ \/ cs[n].op \in {"Get", "Delete"}
       \/ /\ cs[n].op = "Create"
          /\ n > 1
          /\ cs[n - 1].op = "Delete"
          /\ cs[n - 1].idx = cs[n].idx

\* C8: objects are applied in template order; once the apply of an object ends in
\* an error, no call is issued for any later object and the run ends in failure;
\* the objects applied before it keep the successful Update or Create that ended
\* their apply as their last call.
C8_FailFast ==
    LET cs == ApplyCalls IN
    /\ \A n \in 1..Len(cs) : cs[n].idx \in 1..Len(templates)
    /\ \A n \in 1..(Len(cs) - 1) :
          /\ cs[n].idx <= cs[n + 1].idx
          /\ cs[n + 1].idx <= cs[n].idx + 1
    /\ Len(cs) >= 1 => cs[1].idx = 1
    /\ \A n \in 1..Len(cs) :
          EndsInError(cs, n) =>
              /\ n = Len(cs)
              /\ pc = "fatal"
              /\ \A m \in 1..Len(cs) : cs[m].idx <= cs[n].idx
              /\ \A i \in 1..(cs[n].idx - 1) :
                    LET ci == CallsFor(i) IN
                    /\ Len(ci) >= 1
                    /\ ci[Len(ci)].ok
                    /\ ci[Len(ci)].op \in {"Update", "Create"}
    /\ pc = "done" => \A n \in 1..Len(cs) : ~EndsInError(cs, n)

\* the first object was applied, the apply of the second ended in an error, and
\* the run failed
C8_Witness ==
    /\ pc = "fatal"
    /\ Len(templates) >= 2
    /\ idx = 2
    /\ Len(CallsFor(1)) >= 1
    /\ CallsFor(1)[Len(CallsFor(1))].ok
    /\ EndsInError(ApplyCalls, Len(ApplyCalls))
    /\ ApplyCalls[Len(ApplyCalls)].idx = 2

\* C9: every List call precedes every mutating call, and when a List call fails
\* the run ends in failure without a mutating call.
C9_SnapshotBeforeWrites ==
    /\ \A m, n \in 1..Len(calls) :
          (calls[m].op = "List" /\ calls[n].op \in Mutating) => m < n
    /\ \A m \in 1..Len(calls) :
          (calls[m].op = "List" /\ ~calls[m].ok) =>
              /\ pc = "fatal"
              /\ m = Len(calls)
              /\ \A n \in 1..Len(calls) : calls[n].op \notin Mutating

\* the List of the second namespace fails after that of the first has succeeded
C9_ListFails ==
    /\ pc = "fatal"
    /\ Len(calls) = 2
    /\ calls[1].op = "List" /\ calls[1].ok
    /\ calls[2].op = "List" /\ ~calls[2].ok

\* a run that has listed two namespaces and then written to the cluster
C9_Witness ==
    /\ pc = "done"
    /\ Len(calls) >= 4
    /\ calls[2].op = "List"
    /\ calls[Len(calls)].op \in Mutating

\* the directory cannot be read, a file cannot be read, or a document fails to
\* decode
InputError ==
    \/ ~input.dirOK
    \/ \E p \in 1..Len(input.entries) :
          /\ ~input.entries[p].isDir
          /\ \/ ~input.entries[p].readable
             \/ \E d \in 1..Len(input.entries[p].docs) :
                   input.entries[p].docs[d].kind = "undecodable"

\* C10: after an input error the run ends in failure, issues no mutating call and
\* never reaches "done".
C10_InputErrorsFatal ==
    InputError =>
        /\ pc # "done"
        /\ pc \in {"done", "fatal", "panic"} => pc = "fatal"
        /\ \A n \in 1..Len(calls) : calls[n].op \notin Mutating

-----------------------------------------------------------------------------
\* the stored payload of key k is the one the controller last wrote to it
Current(k) == (Exists(k) /\ ctlLast[k] # NoPayload) => cluster[k].data = ctlLast[k]

\* C2 as stated: however the controller's creations and writes interleave with
\* the run, the window between the snapshot and the apply step included, the run
\* never leaves a template's cluster object with a payload that is empty or older
\* than the one the controller last wrote.
C2_NoDataLoss == \A k \in TemplateKeys : Current(k)

\* C2 amended: when the controller neither creates the secret nor writes to it
\* after the List call that took the snapshot of its namespace, the run never
\* leaves a template's cluster object, while it exists, with a payload that is
\* empty or older than the one the controller last wrote.
C2_NoDataLossOutsideWindow == \A k \in TemplateKeys \ raced : Current(k)

\* the controller has written during the run, before the snapshot of the
\* namespace; the template of that key was matched and its Update succeeded
C2_Witness ==
    /\ pc = "done"
    /\ \E i \in 1..Len(templates) :
         /\ Key(templates[i]) \notin raced
         /\ ctlLast[Key(templates[i])] = Payload(2)
         /\ CallsFor(i) = <<Call("Update", templates[i].namespace, templates[i].name, i, TRUE)>>
         /\ cluster[Key(templates[i])].data = Payload(2)

-----------------------------------------------------------------------------
\* C11: whenever the run ends with the success outcome, every parsed template has
\* had Gateway calls issued for it, the last of which is a successful Create or a
\* successful Update; and every successful Delete of such a run is followed by a
\* successful Create for the same object.
C11_AllOrAbort ==
    pc = "done" =>
        /\ Len(templates) = Len(sec)
        /\ \A i \in 1..Len(templates) :
              LET cs == CallsFor(i) IN
              /\ Len(cs) >= 1
              /\ cs[Len(cs)].ok
              /\ cs[Len(cs)].op \in {"Create", "Update"}
        /\ \A n \in 1..Len(calls) :
              (calls[n].op = "Delete" /\ calls[n].ok) =>
                  \E m \in (n + 1)..Len(calls) :
                      /\ calls[m].op = "Create"
                      /\ calls[m].ok
                      /\ calls[m].idx = calls[n].idx

\* a successful run of two templates, one of which went through a Delete
C11_Witness ==
    /\ pc = "done"
    /\ Len(templates) = 2
    /\ \E n \in 1..Len(calls) : calls[n].op = "Delete" /\ calls[n].ok

-----------------------------------------------------------------------------
\* the List calls issued so far, in order
ListCalls == SelectSeq(calls, LAMBDA c : c.op = "List")

\* index of the first template of sec in namespace ns
FirstIn(ns) == CHOOSE i \in 1..Len(sec) :
                   /\ sec[i].namespace = ns
                   /\ \A i2 \in 1..(i - 1) : sec[i2].namespace # ns

\* every List call issued so far has succeeded and the loop over nsc is over
DiscoveryOver ==
    /\ pc \notin {"start", "parse", "list"}
    /\ \A n \in 1..Len(ListCalls) : ListCalls[n].ok

\* C12: secretNamespaces returns every namespace a template names, each once, in
\* the order of first occurrence, and nothing else; the List calls issued are, in
\* order, one per element of that result and for no other namespace: at any time
\* a prefix of it, and the whole of it once the discovery phase is over.
C12_NamespaceDiscovery ==
    /\ \A n \in 1..Len(nsc) : \E i \in 1..Len(sec) : sec[i].namespace = nsc[n]
    /\ \A i \in 1..Len(sec) : \E n \in 1..Len(nsc) : nsc[n] = sec[i].namespace
    /\ \A n, m \in 1..Len(nsc) : nsc[n] = nsc[m] => n = m
    /\ \A n, m \in 1..Len(nsc) : n < m => FirstIn(nsc[n]) < FirstIn(nsc[m])
    /\ Len(ListCalls) <= Len(nsc)
    /\ \A n \in 1..Len(ListCalls) :
          /\ ListCalls[n].ns = nsc[n]
          /\ n < Len(ListCalls) => ListCalls[n].ok
    /\ DiscoveryOver => Len(ListCalls) = Len(nsc)

\* three templates in the namespaces b, a, b: two List calls, for b and then for a
C12_Witness ==
    /\ pc = "reconcile"
    /\ Len(sec) = 3
    /\ sec[1].namespace = "b" /\ sec[2].namespace = "a" /\ sec[3].namespace = "b"
    /\ nsc = <<"b", "a">>
    /\ Len(ListCalls) = 2
    /\ ListCalls[1].ns = "b" /\ ListCalls[2].ns = "a"

-----------------------------------------------------------------------------
\* C13: a run of the maintenance program issues no Create, Update or Delete; its
\* only mutating call is the patch, which carries labels and annotations and
\* nothing else; every secret that existed when the run started exists with the
\* same identity and the same data, and no other secret exists.
C13_MaintenanceFrame ==
    /\ \A n \in 1..Len(calls) :
          /\ calls[n].op \in {"List", "Patch"}
          /\ calls[n].op = "Patch" => DOMAIN sent[n].obj = {"annotations", "labels"}
    /\ DOMAIN cluster = DOMAIN cluster0
    /\ \A k \in DOMAIN cluster :
          /\ cluster[k].uid = cluster0[k].uid
          /\ cluster[k].data = cluster0[k].data

\* a template with data of its own whose patch changed the labels of a stored
\* secret that holds a payload
C13_Witness ==
    /\ pc = "done"
    /\ \E i \in 1..Len(templates) :
         LET k == Key(templates[i]) IN
         /\ templates[i].data = Payload(0)
         /\ Len(CallsFor(i)) = 1
         /\ CallsFor(i)[1].op = "Patch"
         /\ CallsFor(i)[1].ok
         /\ cluster[k].labels # cluster0[k].labels
         /\ cluster[k].data = Payload(1)

\* the patches issued so far, in order
PatchCalls == SelectSeq(calls, LAMBDA c : c.op = "Patch")

\* C14: the patches are issued one per template in template order; after the
\* answer "not found" no further call is issued for the object and the run goes
\* on with the next template (or ends in success after the last); after any
\* other error the run ends in failure and no patch is issued for a later
\* template.
C14_PatchErrorClasses ==
    LET ps == PatchCalls IN
    /\ \A n \in 1..Len(ps) : ps[n].idx = n
    /\ \A n \in 1..Len(ps) :
          ps[n].answer = "not found" =>
              /\ idx > n
              /\ n < Len(sec) => (Len(ps) > n \/ (pc = "apply" /\ idx = n + 1))
              /\ n = Len(sec) => pc = "done"
    /\ \A n \in 1..Len(ps) :
          ps[n].answer = "error" =>
              /\ n = Len(ps)
              /\ pc = "fatal"
              /\ idx = n

\* the patch of the first template is answered "not found", the patch of the
\* second one is issued and answered with another error, and the run fails
C14_Witness ==
    /\ pc = "fatal"
    /\ Len(templates) = 2
    /\ Len(PatchCalls) = 2
    /\ PatchCalls[1].answer = "not found"
    /\ PatchCalls[2].answer = "error"

-----------------------------------------------------------------------------
(* Vocabulary of the properties of the parser. *)

\* the positions <<entry, document>> of the documents of the files of the input
InputDocs ==
    UNION { {<<p, d>> : d \in 1..Len(input.entries[p].docs)} :
              p \in {p \in 1..Len(input.entries) : ~input.entries[p].isDir} }

DocAt(q) == input.entries[q[1]].docs[q[2]]

\* the documents of the target kind
SecretDocAt == {q \in InputDocs : DocAt(q).kind = "Secret"}

\* the rank of document q among the documents of Q: file order, then document order
Rank(q, Q) ==
    1 + Cardinality({r \in Q : r[1] < q[1] \/ (r[1] = q[1] /\ r[2] < q[2])})

\* the parsed template s with the maps of heap h is the decoded document obj
SameTemplate(s, h, obj) ==
    /\ s.namespace = obj.namespace
    /\ s.name = obj.name
    /\ s.data = obj.data
    /\ (s.labels = Nil) <=> obj.labels.isNil
    /\ KV(h, s.labels) = obj.labels.kv
    /\ (s.annotations = Nil) <=> obj.annotations.isNil
    /\ KV(h, s.annotations) = obj.annotations.kv
    /\ s.uid = obj.uid
    /\ s.resourceVersion = obj.resourceVersion
    /\ s.creationTimestamp = obj.creationTimestamp

\* C15: when every file can be read and every document handed to the decoder
\* decodes, parseFilesAsSecrets returns no error and exactly the documents of the
\* kind Secret, in file order and within a file in document order; documents of
\* another kind are dropped; the documents handed to the decoder are those that
\* are neither blank nor only comments.
C15_ParserSelection ==
    LET r == parseFilesAsSecrets(input, getSecretFiles(input)) IN
    ~InputError =>
        /\ ~r.err
        /\ Len(r.secrets) = Cardinality(SecretDocAt)
        /\ \A q \in SecretDocAt :
              SameTemplate(r.secrets[Rank(q, SecretDocAt)], r.heap, DocAt(q).obj)
        /\ LET D == {q \in InputDocs : DocAt(q).kind \notin {"blank", "comment"}} IN
           /\ Len(r.decoded) = Cardinality(D)
           /\ \A q \in D : r.decoded[Rank(q, D)] = DocAt(q).kind
        /\ pc \in {"list", "reconcile"} => sec = r.secrets

\* two files with a directory between them; the first file holds two different
\* templates with a document of another kind between them, the second file holds
\* a third one; the three are returned in file order and, within the first file,
\* in document order
C15_Witness ==
    /\ pc \in {"list", "reconcile"}
    /\ input.dirOK /\ ~InputError
    /\ Len(sec) = 3
    /\ \E p1, p2 \in 1..Len(input.entries) : \E d1, d2, d3 \in 1..MaxDocs :
         /\ p1 < p2
         /\ d1 < d2
         /\ {<<p1, d1>>, <<p1, d2>>, <<p2, d3>>} = SecretDocAt
         /\ \E d \in (d1 + 1)..(d2 - 1) : DocAt(<<p1, d>>).kind = "other"
         /\ Key(DocAt(<<p1, d1>>).obj) # Key(DocAt(<<p1, d2>>).obj)
         /\ Key(sec[1]) = Key(DocAt(<<p1, d1>>).obj)
         /\ Key(sec[2]) = Key(DocAt(<<p1, d2>>).obj)
         /\ Key(sec[3]) = Key(DocAt(<<p2, d3>>).obj)

-----------------------------------------------------------------------------
\* C16: for every template sequence and every live snapshot, objects with a nil
\* label or annotation map included, the reconcile step completes: the process
\* does not abort in it, and it returns one object per template, in template
\* order.
C16_ReconcilerNeverFails ==
    /\ pc # "panic"
    /\ Reconciled =>
          /\ Len(sec) = Len(templates)
          /\ \A i \in 1..Len(templates) : Key(sec[i]) = Key(templates[i])

\* C17: after updateSecretData has returned, the label and annotation maps of
\* every object of the live snapshot hold the keys and values they held before
\* the call, and no map of a reconciled object is a map of the snapshot.
C17_MergeLeavesInputs ==
    Reconciled =>
        \A j \in 1..Len(allSecrets) :
            /\ After(allSecrets[j].labels) = Before(allSecrets[j].labels)
            /\ After(allSecrets[j].annotations) = Before(allSecrets[j].annotations)
            /\ \A i \in 1..Len(sec) :
                  /\ sec[i].labels # Nil => sec[i].labels # allSecrets[j].labels
                  /\ sec[i].annotations # Nil =>
                         sec[i].annotations # allSecrets[j].annotations

-----------------------------------------------------------------------------
\* what the calls issued for object i carried, in the order of CallsFor(i)
SentFor(i) == SelectSeq(sent, LAMBDA e : e.idx = i)

CreateFailed(i) ==
    /\ Len(CallsFor(i)) >= 1
    /\ CallsFor(i)[1].op = "Create"
    /\ ~CallsFor(i)[1].ok

\* every call issued for object i names the namespace and the name of its template
SameKey(i) ==
    \A n \in 1..Len(CallsFor(i)) :
        /\ CallsFor(i)[n].ns = templates[i].namespace
        /\ CallsFor(i)[n].name = templates[i].name

\* C18 as stated: after a failed Create of a template without identity marker the
\* Applier issues Get for the same namespace and name; if the Get fails the run
\* fails without Delete or second Create; if the Get succeeds the Applier issues
\* Delete and then Create with the same object.
C18_RecreateAfterCreate ==
    \A i \in 1..Len(templates) :
        (CreateFailed(i) /\ Returned(i)) =>
            LET f == Fallback(i) IN
            /\ SameKey(i)
            /\ Len(f) >= 1
            /\ f[1].op = "Get"
            /\ ~f[1].ok => (Len(f) = 1 /\ pc = "fatal")
            /\ f[1].ok =>
                  /\ Ops(f) = <<"Get", "Delete", "Create">>
                  /\ SentFor(i)[4].obj = SentFor(i)[1].obj

\* C18 amended: after a failed Create of a template without identity marker the
\* Applier issues Get for the same namespace and name; if the Get fails the run
\* fails without Delete or second Create; if the Get succeeds the Applier issues
\* Delete, and if the Delete succeeds it issues Create with the same object, the
\* resourceVersion and the creation timestamp its document carried cleared; if the
\* Delete fails the run fails without a second Create.
C18_RecreatePath ==
    \A i \in 1..Len(templates) :
        CreateFailed(i) =>
            LET f == Fallback(i) IN
            /\ SameKey(i)
            /\ templates[i].uid = EmptyUID
            /\ \E n \in 0..3 : Ops(f) = SubSeq(<<"Get", "Delete", "Create">>, 1, n)
            /\ \A n \in 1..(Len(f) - 1) : f[n].ok
            /\ Len(f) = 3 => SentFor(i)[4].obj = Cleaned(SentFor(i)[1].obj)
            /\ Returned(i) =>
                  /\ Len(f) >= 1
                  /\ ~f[1].ok => (Len(f) = 1 /\ pc = "fatal")
                  /\ f[1].ok => Len(f) >= 2
                  /\ (Len(f) >= 2 /\ ~f[2].ok) => (Len(f) = 2 /\ pc = "fatal")
                  /\ (Len(f) >= 2 /\ f[2].ok) => Len(f) = 3

\* a template without a live object in the snapshot, whose secret the controller
\* created afterwards: its Create failed and was followed by Get, Delete and the
\* Create of the same object, and the run ended in success
C18_Witness ==
    /\ UniqueKeys
    /\ \E i \in 1..Len(templates) :
         /\ LiveOf(i) = {}
         /\ Key(templates[i]) \in raced
         /\ CreateFailed(i)
         /\ Ops(Fallback(i)) = <<"Get", "Delete", "Create">>
         /\ Fallback(i)[3].ok
         /\ SentFor(i)[4].obj.data = Payload(0)
         /\ pc = "done"

-----------------------------------------------------------------------------
\* C19: in the Recreate path the identity marker, the resourceVersion and the
\* creation timestamp of the object are cleared before the Get is issued; the
\* object the final Create carries has them empty, and its namespace, name,
\* labels, annotations and data are those of the object the failed first call
\* carried.
C19_CleanedObject ==
    /\ (pc = "apply" /\ step \in {"get", "delete", "create"}) =>
          /\ sec[idx].uid = EmptyUID
          /\ sec[idx].resourceVersion = EmptyRV
          /\ sec[idx].creationTimestamp = ZeroTime
    /\ \A i \in 1..Len(templates) :
          Len(CallsFor(i)) = 4 =>
              LET first == SentFor(i)[1].obj
                  last  == SentFor(i)[4].obj
              IN  /\ CallsFor(i)[4].op = "Create"
                  /\ last.uid = EmptyUID
                  /\ last.resourceVersion = EmptyRV
                  /\ last.creationTimestamp = ZeroTime
                  /\ last.namespace = first.namespace
                  /\ last.name = first.name
                  /\ last.labels = first.labels
                  /\ last.annotations = first.annotations
                  /\ last.data = first.data

\* an object with markers, labels, annotations and a payload whose Update failed
\* and that was created anew
C19_Witness ==
    \E i \in 1..Len(templates) :
        /\ UpdateFailed(i)
        /\ Len(CallsFor(i)) = 4
        /\ CallsFor(i)[4].ok
        /\ SentFor(i)[1].obj.uid # EmptyUID
        /\ SentFor(i)[1].obj.resourceVersion # EmptyRV
        /\ SentFor(i)[1].obj.creationTimestamp # ZeroTime
        /\ SentFor(i)[1].obj.labels # EmptyKV
        /\ SentFor(i)[1].obj.annotations # EmptyKV
        /\ SentFor(i)[1].obj.data = Payload(1)

-----------------------------------------------------------------------------
\* call n of the Applier is the Create that follows a successful Delete
AfterDelete(cs, n) ==
    /\ n > 1
    /\ cs[n].op = "Create"
    /\ cs[n - 1].op = "Delete"
    /\ cs[n - 1].ok
    /\ cs[n - 1].idx = cs[n].idx

\* C20: in the Recreate path a failed Delete is the last call of the run, which
\* ends in failure; a failed Create after a successful Delete is the last call of
\* the run, which ends in failure with the object absent from the cluster; in
\* both cases no call is issued for a later template.
C20_RecreateErrors ==
    LET cs == ApplyCalls IN
    \A n \in 1..Len(cs) :
        /\ (cs[n].op = "Delete" /\ ~cs[n].ok) =>
              /\ n = Len(cs)
              /\ pc = "fatal"
              /\ idx = cs[n].idx
        /\ (cs[n].op = "Delete" /\ cs[n].ok /\ pc \in {"done", "fatal"}) =>
              (n < Len(cs) /\ AfterDelete(cs, n + 1))
        /\ (AfterDelete(cs, n) /\ ~cs[n].ok) =>
              /\ n = Len(cs)
              /\ pc = "fatal"
              /\ idx = cs[n].idx
              /\ ~Exists(<<cs[n].ns, cs[n].name>>)

\* the Delete for the first of two templates succeeded, the Create after it
\* failed, and the run failed with no call for the second template
C20_Witness ==
    /\ pc = "fatal"
    /\ Len(templates) = 2
    /\ idx = 1
    /\ Len(ApplyCalls) >= 3
    /\ AfterDelete(ApplyCalls, Len(ApplyCalls))
    /\ ~ApplyCalls[Len(ApplyCalls)].ok
    /\ CallsFor(2) = <<>>
    /\ cluster0 # cluster

-----------------------------------------------------------------------------
\* the indices of the parsed templates whose namespace and name another parsed
\* template has as well
Duplicates ==
    {i \in 1..Len(sec) : \E i2 \in 1..Len(sec) : i2 # i /\ Key(sec[i2]) = Key(sec[i])}

\* C21: when two templates of the parsed sequence have the same namespace and
\* name, the run ends in failure: it does not go on to apply the reconciled
\* objects, does not end in success, and issues no mutating call for either of the
\* two templates.
C21_DuplicatesRejected ==
    Duplicates # {} =>
        /\ pc \notin {"apply", "done"}
        /\ \A n \in 1..Len(calls) :
              calls[n].op \in Mutating => calls[n].idx \notin Duplicates

-----------------------------------------------------------------------------
(* Vocabulary of the properties of comment stripping. *)

\* the first character of the line after its leading white space is "#"
CommentLine(line) == HasPrefix(TrimLeft(line), "#")

\* the content without its comment lines
Stripped(content) ==
    Join(SelectSeq(Split(content, "\n"), LAMBDA line : ~CommentLine(line)), "\n")

\* the documents of a content: its pieces between delimiters that are not blank,
\* without the white space around them
Documents(content) ==
    LET pieces == SelectSeq(Split(content, "---"), LAMBDA p : TrimSpace(p) # <<>>)
    IN  [n \in 1..Len(pieces) |-> TrimSpace(pieces[n])]

\* C22: the documents the parser hands to the decoder are the documents of the
\* content from which exactly the comment lines (first character after leading
\* white space "#") have been removed, the removal coming before the split at the
\* delimiters: an indented comment line is removed, a line with content before a
\* "#" is kept, and a delimiter inside a comment line starts no document.
C22_CommentStripping ==
    pc = "scanned" =>
        [n \in 1..Len(scan.handed) |-> TrimSpace(scan.handed[n])]
            = Documents(Stripped(scan.content))

-----------------------------------------------------------------------------
\* the merged map holds every key of the template's and of the live object's map
HasAllKeys(merged, tpl, live) == ((DOMAIN tpl) \cup (DOMAIN live)) \subseteq DOMAIN merged

\* C23: for every template with a matching live object, the labels and the
\* annotations of the object the updateSecretData of src/unnamed/part_001 returns
\* hold every key of the live object's map and every key of the template's map,
\* with the template's value where both have the key, and its data is the live
\* object's data.
C23_NoFallbackMerge ==
    Reconciled =>
        \A i \in 1..Len(templates) : \A j \in LiveOf(i) :
            /\ HasAllKeys(After(sec[i].labels), Before(templates[i].labels),
                          Before(allSecrets[j].labels))
            /\ Wins(After(sec[i].labels), Before(templates[i].labels),
                    Before(allSecrets[j].labels))
            /\ HasAllKeys(After(sec[i].annotations), Before(templates[i].annotations),
                          Before(allSecrets[j].annotations))
            /\ Wins(After(sec[i].annotations), Before(templates[i].annotations),
                    Before(allSecrets[j].annotations))
            /\ sec[i].data = allSecrets[j].data

-----------------------------------------------------------------------------
\* the run has ended: "done" logged, l.Fatal called, or the process has panicked
Terminated == pc \in {"done", "fatal", "panic"}

\* the calls of one object: an Update or a Create, then Get, Delete and Create
CallShapes ==
    {SubSeq(<<first, "Get", "Delete", "Create">>, 1, n) :
        first \in {"Update", "Create"}, n \in 0..4}

\* at most one List per namespace; per template at most four calls, an Update or
\* a Create and then at most one Get, one Delete and one Create; a call that has
\* failed is not issued again: the call after a failed first call is the Get, and
\* no call follows a failed Get, Delete or second Create
BoundedCalls ==
    /\ \A n, m \in 1..Len(ListCalls) : ListCalls[n].ns = ListCalls[m].ns => n = m
    /\ Len(ListCalls) <= Len(nsc)
    /\ \A n \in 1..Len(ApplyCalls) : ApplyCalls[n].idx \in 1..Len(sec)
    /\ \A i \in 1..Len(sec) :
          LET cs == CallsFor(i) IN
          /\ Len(cs) <= 4
          /\ Ops(cs) \in CallShapes
          /\ \A n \in 1..(Len(cs) - 1) :
                /\ ~cs[n].ok => (n = 1 /\ cs[n + 1].op # cs[n].op)
                /\ cs[n].ok => n > 1

\* C24: every run reaches a terminal outcome, whatever the Gateway answers, and
\* all along it the calls issued are bounded: at most one List per distinct
\* namespace, at most four calls per template (one Update or Create, then at most
\* one Get, one Delete and one Create), and no failed call issued again.
C24_BoundedRun == []BoundedCalls /\ <>Terminated

\* a run over two namespaces that ended in success after four calls for one
\* template, the first of which failed
C24_Witness ==
    /\ pc = "done"
    /\ Len(ListCalls) = 2
    /\ \E i \in 1..Len(sec) :
         /\ Len(CallsFor(i)) = 4
         /\ ~CallsFor(i)[1].ok

====
